---- MODULE Spec2Model ----
(***************************************************************************)
(* Node-graph execution core of tp.common.nodegraph: nodes, sockets, edge  *)
(* bookkeeping, the execution queue and the per-node execution engine.     *)
(*                                                                         *)
(* Node objects are identified by name; socket objects by their position   *)
(* in the allocation table `sockets` (an object keeps its identity after   *)
(* it has been detached from its node).                                    *)
(***************************************************************************)
EXTENDS Integers, Sequences, FiniteSets, TLC

VARIABLES
    sockets,          \* socket id -> socket object (node, direction, type, label, index, ...)
    inputs,           \* node -> Node._inputs, sequence of socket ids
    outputs,          \* node -> Node._outputs, sequence of socket ids
    required_inputs,  \* node -> Node._required_inputs, sequence of socket ids
    is_compiled,      \* node -> Node._is_compiled
    is_invalid,       \* node -> Node._is_invalid
    is_executing,     \* node -> Node._is_executing
    graphics_node,    \* node -> TRUE while Node._graphics_node is not None
    scene_nodes,      \* nodes registered in the scene
    pc,               \* position of the build: "idle", "call", "events", "returned", "finished"
    root,             \* root node of the running build, "none" between builds
    queue,            \* execution queue of the running build
    pos,              \* position in queue of the node being executed
    outcomes,         \* outcomes of the Node._exec calls of the running (or last) build
    result,           \* outcome of the last build
    last_error,       \* error raised by the last socket / node editing call
    signals,          \* compiledChanged / invalidChanged notifications emitted by the last call
    tooltip,          \* node -> the 'Invalid input: <label>' lines of the tooltip of its graphics node
    returned,         \* value returned by the last call, for the calls that return one
    model_nodes,      \* NodeGraph._model.nodes: the node ids registered in the graph's id-mapping
    factory_count,    \* number of node objects the factory has instantiated
    use_main_thread_executor,  \* Server._use_main_thread_executor
    keep_running,     \* Server._keep_running
    executor_reply,   \* Server._executor_reply: None or a result
    server_pc,        \* position of the server thread: "loop", "waiting", "returning", "stopped"
    request,          \* request the server thread is handling
    result_local,     \* result held by the server thread on its way out of the request
    pending,          \* commands emitted with commandToBeExecuted the executor has not run yet
    served,           \* number of requests the server has accepted
    responses         \* responses written to the clients, in order

vars == <<sockets, inputs, outputs, required_inputs, is_compiled, is_invalid,
          is_executing, graphics_node, scene_nodes, pc, root, queue, pos,
          outcomes, result, last_error, signals, tooltip, returned, model_nodes,
          factory_count, use_main_thread_executor, keep_running, executor_reply,
          server_pc, request, result_local, pending, served, responses>>

graph_vars == <<sockets, inputs, outputs, required_inputs>>
flag_vars == <<is_compiled, is_invalid, is_executing>>
build_vars == <<pc, root, queue, pos, outcomes, result>>
model_vars == <<model_nodes, factory_count>>
nodegraph_vars == <<sockets, inputs, outputs, required_inputs, is_compiled, is_invalid,
                    is_executing, graphics_node, scene_nodes, pc, root, queue, pos,
                    outcomes, result, last_error, signals, tooltip, returned, model_nodes,
                    factory_count>>
server_vars == <<use_main_thread_executor, keep_running, executor_reply, server_pc,
                 request, result_local, pending, served, responses>>

-----------------------------------------------------------------------------
(* Bounds *)

\* Python's recursion limit (sys.getrecursionlimit()), scaled down.
RecursionLimit == 6

\* Number of sockets the editing session may allocate on top of the
\* constructed ones.
MaxNewSockets == 1

\* Number of node objects the factory may instantiate in a session.
MaxCreated == 2

\* Number of entries the host's marking calls may add to the required-inputs
\* queues on top of the constructed ones.
MaxMarks == 2

-----------------------------------------------------------------------------
(* Values and data types *)

Nodes == {"Start", "Add", "Print"}

\* Python None, and an int value
None == << >>
IntVal(v) == <<v>>

\* no value returned (or none kept) by the last call
NoValue == [call |-> "none"]

\* the notifications of Node.signals the model records
CompiledChanged(n, state) == [signal |-> "compiledChanged", node |-> n, state |-> state]
InvalidChanged(n, state) == [signal |-> "invalidChanged", node |-> n, state |-> state]

\* the tooltip of a new graphics node holds no 'Invalid input' line
EmptyToolTip == << >>

Exec == "Exec"
Numeric == "Numeric"
DataTypes == {Exec, Numeric}

NoLabel == ""
Labels == {"a", "b", "result"}

-----------------------------------------------------------------------------
(* Sequence helpers *)

Range(s) == {s[i] : i \in DOMAIN s}

RECURSIVE RemoveFirst(_, _)
\* list.remove(x) / deque.remove(x): drops the first occurrence of x
RemoveFirst(s, x) ==
    IF s = << >> THEN << >>
    ELSE IF Head(s) = x THEN Tail(s)
    ELSE <<Head(s)>> \o RemoveFirst(Tail(s), x)

\* first element of s satisfying the label test, as a set of at most one
FirstWithLabel(g, s, name) ==
    LET hits == {i \in DOMAIN s : g.sockets[s[i]].label = name}
    IN  IF hits = {} THEN {}
        ELSE {s[CHOOSE i \in hits : \A j \in hits : i <= j]}

-----------------------------------------------------------------------------
(* The object graph g = [sockets, inputs, outputs, required_inputs] and the *)
(* operations of Socket and Node on it.                                     *)

\* Socket.__init__
NewSocket(n, isInput, index, dataType, label, maxConnections, value) ==
    [node |-> n, is_input |-> isInput, index |-> index, data_type |-> dataType,
     label |-> label, max_connections |-> maxConnections, value |-> value,
     connections |-> << >>]

\* Socket.has_edge
has_edge(g, s) == g.sockets[s].connections # << >>

\* truth value Python gives a socket value (None and 0 are false)
Truthy(v) == v # None /\ v # IntVal(0)

\* Socket.list_connections
list_connections(g, s) == g.sockets[s].connections

\* limit test that lets one connection too many through
AtLimit_OffByOne(g, s) ==
    /\ g.sockets[s].max_connections # 0
    /\ Len(g.sockets[s].connections) > g.sockets[s].max_connections

\* The connection limit test of Socket.add_edge
AtLimit(g, s) ==
    /\ g.sockets[s].max_connections # 0
    /\ Len(g.sockets[s].connections) >= g.sockets[s].max_connections

\* Socket.add_edge, the recording part: the edge is stored on both endpoints
RecordEdge(g, s, t) ==
    [g EXCEPT !.sockets =
        [x \in DOMAIN g.sockets |->
            IF x = s THEN [g.sockets[x] EXCEPT !.connections = Append(@, t)]
            ELSE IF x = t THEN [g.sockets[x] EXCEPT !.connections = Append(@, s)]
            ELSE g.sockets[x]]]

\* remove_edge that forgets the other endpoint
DropEdge_OneSided(g, s, t) ==
    [g EXCEPT !.sockets[s].connections = RemoveFirst(@, t)]

\* Socket.remove_edge: the record is dropped from both endpoints
DropEdge(g, s, t) ==
    [g EXCEPT !.sockets =
        [x \in DOMAIN g.sockets |->
            IF x = s THEN [g.sockets[x] EXCEPT !.connections = RemoveFirst(@, t)]
            ELSE IF x = t THEN [g.sockets[x] EXCEPT !.connections = RemoveFirst(@, s)]
            ELSE g.sockets[x]]]

RECURSIVE RemoveAllEdges(_, _)
\* Socket.remove_all_edges
RemoveAllEdges(g, s) ==
    IF g.sockets[s].connections = << >> THEN g
    ELSE RemoveAllEdges(DropEdge(g, s, Head(g.sockets[s].connections)), s)

\* Socket.value
SocketValue(g, s) ==
    IF g.sockets[s].is_input /\ has_edge(g, s)
    THEN g.sockets[list_connections(g, s)[1]].value
    ELSE g.sockets[s].value

\* add_input creating the socket with unlimited connections
AddInput_Unlimited(g, n, dataType, label, value) ==
    LET sid == Len(g.sockets) + 1
        new_socket == NewSocket(n, TRUE, Len(g.inputs[n]), dataType, label, 0, value)
    IN  [g EXCEPT !.sockets = Append(@, new_socket),
                  !.inputs[n] = Append(@, sid)]

\* Node.add_input
AddInput(g, n, dataType, label, value) ==
    LET sid == Len(g.sockets) + 1
        new_socket == NewSocket(n, TRUE, Len(g.inputs[n]), dataType, label, 1, value)
    IN  [g EXCEPT !.sockets = Append(@, new_socket),
                  !.inputs[n] = Append(@, sid)]

\* add_output that keeps the caller's max_connections for an Exec output
AddOutput_AsPassed(g, n, dataType, label, maxConnections, value) ==
    LET sid == Len(g.sockets) + 1
        new_socket == NewSocket(n, FALSE, Len(g.outputs[n]), dataType, label,
                                maxConnections, value)
    IN  [g EXCEPT !.sockets = Append(@, new_socket),
                  !.outputs[n] = Append(@, sid)]

\* Node.add_output
AddOutput(g, n, dataType, label, maxConnections, value) ==
    LET sid == Len(g.sockets) + 1
        max_connections == IF dataType = Exec THEN 1 ELSE maxConnections
        new_socket == NewSocket(n, FALSE, Len(g.outputs[n]), dataType, label,
                                max_connections, value)
    IN  [g EXCEPT !.sockets = Append(@, new_socket),
                  !.outputs[n] = Append(@, sid)]

\* Node.mark_input_as_required, called with a socket
MarkInputAsRequired(g, n, s) ==
    [g EXCEPT !.required_inputs[n] = Append(@, s)]

\* remove_socket without the re-indexing loops
Reindex_Skipped(g, seq) == g

\* the re-indexing loops of Node.remove_socket
Reindex(g, seq) ==
    [g EXCEPT !.sockets =
        [x \in DOMAIN g.sockets |->
            IF \E i \in DOMAIN seq : seq[i] = x
            THEN [g.sockets[x] EXCEPT !.index = (CHOOSE i \in DOMAIN seq : seq[i] = x) - 1]
            ELSE g.sockets[x]]]

\* Node.remove_socket; a label that matches no socket raises IndexError,
\* which the method catches and logs
RemoveSocket(g, n, name, isInput) ==
    LET side == IF isInput THEN g.inputs[n] ELSE g.outputs[n]
        found == FirstWithLabel(g, side, name)
    IN  IF found = {} THEN g
        ELSE LET socket_to_remove == CHOOSE s \in found : TRUE
                 rest == RemoveFirst(side, socket_to_remove)
                 g1 == IF isInput
                       THEN [g EXCEPT !.inputs[n] = rest,
                                      !.required_inputs[n] =
                                          RemoveFirst(@, socket_to_remove)]
                       ELSE [g EXCEPT !.outputs[n] = rest]
                 g2 == Reindex(g1, rest)
             IN  RemoveAllEdges(g2, socket_to_remove)

\* Node.remove_all_connections
RECURSIVE RemoveEdgesOf(_, _)
RemoveEdgesOf(g, seq) ==
    IF seq = << >> THEN g
    ELSE RemoveEdgesOf(RemoveAllEdges(g, Head(seq)), Tail(seq))

RemoveAllConnections(g, n, includeExec) ==
    LET keep(s) == ~includeExec /\ g.sockets[s].data_type = Exec
        ins == SelectSeq(g.inputs[n], LAMBDA s : ~keep(s))
        outs == SelectSeq(g.outputs[n], LAMBDA s : ~keep(s))
    IN  RemoveEdgesOf(RemoveEdgesOf(g, ins), outs)

-----------------------------------------------------------------------------
(* Construction *)

EmptyGraph ==
    [sockets |-> << >>,
     inputs |-> [n \in Nodes |-> << >>],
     outputs |-> [n \in Nodes |-> << >>],
     required_inputs |-> [n \in Nodes |-> << >>]]

\* Node._setup_sockets: the default exec sockets of an exec-enabled node
SetupExecSockets(g, n) ==
    AddOutput(AddInput(g, n, Exec, NoLabel, None), n, Exec, NoLabel, 1, None)

\* setup_sockets of the Add node type: two required numeric inputs with
\* defaults 2 and 3, one numeric output
SetupAdd(g) ==
    LET g1 == AddInput(g, "Add", Numeric, "a", IntVal(2))
        a == Len(g1.sockets)
        g2 == AddInput(g1, "Add", Numeric, "b", IntVal(3))
        b == Len(g2.sockets)
        g3 == MarkInputAsRequired(MarkInputAsRequired(g2, "Add", a), "Add", b)
    IN  AddOutput(g3, "Add", Numeric, "result", 0, None)

\* setup_sockets of the Print node type: one numeric input
SetupPrint(g) == AddInput(g, "Print", Numeric, "a", None)

Constructed ==
    LET g1 == SetupExecSockets(EmptyGraph, "Start")
        g2 == SetupAdd(SetupExecSockets(g1, "Add"))
    IN  SetupPrint(SetupExecSockets(g2, "Print"))

\* Server._make_result; origin tells which request the result was made for
\* (it is no key of the dictionary)
make_result(success, return_value, command, origin) ==
    [success |-> success, return_value |-> return_value, command |-> command,
     origin |-> origin]

\* Python's None in Server._executor_reply
NoReply == make_result(FALSE, "None", "None", 0)

\* no request in the hands of the server thread
NoRequest == [id |-> 0, function_name |-> ""]

\* Server.__init__
ServerConstructed(useMainThreadExecutor) ==
    /\ use_main_thread_executor = useMainThreadExecutor
    /\ keep_running = TRUE
    /\ executor_reply = NoReply
    /\ server_pc = "loop"
    /\ request = NoRequest
    /\ result_local = NoReply
    /\ pending = << >>
    /\ served = 0
    /\ responses = << >>

G == [sockets |-> sockets, inputs |-> inputs, outputs |-> outputs,
      required_inputs |-> required_inputs]

SetGraph(g) ==
    /\ sockets' = g.sockets
    /\ inputs' = g.inputs
    /\ outputs' = g.outputs
    /\ required_inputs' = g.required_inputs

Init ==
    /\ sockets = Constructed.sockets
    /\ inputs = Constructed.inputs
    /\ outputs = Constructed.outputs
    /\ required_inputs = Constructed.required_inputs
    /\ is_compiled = [n \in Nodes |-> FALSE]
    /\ is_invalid = [n \in Nodes |-> FALSE]
    /\ is_executing = [n \in Nodes |-> FALSE]
    /\ graphics_node = [n \in Nodes |-> TRUE]
    /\ scene_nodes = Nodes
    /\ pc = "idle"
    /\ root = "none"
    /\ queue = << >>
    /\ pos = 0
    /\ outcomes = << >>
    /\ result = "none"
    /\ last_error = "none"
    /\ signals = << >>
    /\ tooltip = [n \in Nodes |-> EmptyToolTip]
    /\ returned = NoValue
    /\ model_nodes = {}
    /\ factory_count = 0
    /\ ServerConstructed(FALSE)

-----------------------------------------------------------------------------
(* Node queries *)

\* sockets currently attached to a node
SocketsOf(g, n) == Range(g.inputs[n]) \cup Range(g.outputs[n])

\* list_exec_outputs without the data type filter
list_exec_outputs_AllOutputs(g, n) == g.outputs[n]

\* Node.list_exec_outputs
list_exec_outputs(g, n) ==
    SelectSeq(g.outputs[n], LAMBDA s : g.sockets[s].data_type = Exec)

RECURSIVE ConnectedNodes(_, _)
\* [child_socket.node for child_socket in output.list_connections()]
ConnectedNodes(g, conns) ==
    IF conns = << >> THEN << >>
    ELSE <<g.sockets[Head(conns)].node>> \o ConnectedNodes(g, Tail(conns))

RECURSIVE ChildrenOver(_, _)
ChildrenOver(g, outs) ==
    IF outs = << >> THEN << >>
    ELSE ConnectedNodes(g, list_connections(g, Head(outs))) \o ChildrenOver(g, Tail(outs))

\* Node.list_children(recursive=False)
list_children(g, n) == ChildrenOver(g, g.outputs[n])

\* Node.list_exec_children
list_exec_children(g, n) == ChildrenOver(g, list_exec_outputs(g, n))

-----------------------------------------------------------------------------
(* Execution queue.  A call deeper than RecursionLimit raises              *)
(* RecursionError, which unwinds the whole recursion.                      *)

RECURSIVE exec_queue(_, _, _)
RECURSIVE ExecQueueLoop(_, _, _, _)

\* the for loop of Node.exec_queue over list_exec_outputs()
ExecQueueLoop(g, acc, outs, depth) ==
    IF acc.err \/ outs = << >> THEN acc
    ELSE IF list_connections(g, Head(outs)) = << >>
         THEN ExecQueueLoop(g, acc, Tail(outs), depth)
         ELSE LET sub == exec_queue(g, g.sockets[list_connections(g, Head(outs))[1]].node,
                                    depth + 1)
              IN  IF sub.err THEN [q |-> acc.q, err |-> TRUE]
                  ELSE ExecQueueLoop(g, [q |-> acc.q \o sub.q, err |-> FALSE],
                                     Tail(outs), depth)

\* Node.exec_queue
exec_queue(g, n, depth) ==
    IF depth > RecursionLimit THEN [q |-> << >>, err |-> TRUE]
    ELSE ExecQueueLoop(g, [q |-> <<n>>, err |-> FALSE], list_exec_outputs(g, n), depth)

-----------------------------------------------------------------------------
(* Compiled flag and its cascade.  c = [compiled, err, emits]: the         *)
(* compiled flags of all nodes, whether RecursionError has been raised,    *)
(* and the compiledChanged notifications emitted so far.                   *)

RECURSIVE set_compiled(_, _, _, _, _)
RECURSIVE mark_children_compiled(_, _, _, _, _)
RECURSIVE MarkChildrenLoop(_, _, _, _, _)

\* the for loop of Node.mark_children_compiled
MarkChildrenLoop(g, c, children, state, depth) ==
    IF c.err \/ children = << >> THEN c
    ELSE LET c1 == set_compiled(g, c, Head(children), state, depth + 1)
             c2 == IF c1.err THEN c1
                   ELSE mark_children_compiled(g, c1, Head(children), state, depth + 1)
         IN  MarkChildrenLoop(g, c2, Tail(children), state, depth)

\* mark_children_compiled without the early return for state = True
mark_children_compiled_AnyState(g, c, n, state, depth) ==
    IF depth > RecursionLimit THEN [c EXCEPT !.err = TRUE]
    ELSE MarkChildrenLoop(g, c, list_children(g, n), state, depth)

\* Node.mark_children_compiled
mark_children_compiled(g, c, n, state, depth) ==
    IF depth > RecursionLimit THEN [c EXCEPT !.err = TRUE]
    ELSE IF state THEN c
    ELSE MarkChildrenLoop(g, c, list_children(g, n), state, depth)

\* set_compiled without the test for an unchanged flag
set_compiled_NoGuard(g, c, n, flag, depth) ==
    IF depth > RecursionLimit THEN [c EXCEPT !.err = TRUE]
    ELSE mark_children_compiled(g, [c EXCEPT !.compiled[n] = flag,
                                             !.emits = Append(@, CompiledChanged(n, flag))],
                                n, flag, depth + 1)

\* Node.set_compiled; compiledChanged is connected to _on_compiled_changed,
\* which calls mark_children_compiled
set_compiled(g, c, n, flag, depth) ==
    IF depth > RecursionLimit THEN [c EXCEPT !.err = TRUE]
    ELSE IF c.compiled[n] = flag THEN c
    ELSE mark_children_compiled(g, [c EXCEPT !.compiled[n] = flag,
                                             !.emits = Append(@, CompiledChanged(n, flag))],
                                n, flag, depth + 1)

\* set_invalid that also marks the children of the node
set_invalid_Cascading(i, n, flag) ==
    [invalid |-> [m \in Nodes |->
                     IF m = n \/ m \in Range(list_children(G, n)) THEN flag
                     ELSE i.invalid[m]],
     emits |-> Append(i.emits, InvalidChanged(n, flag))]

\* Node.set_invalid.  i = [invalid, emits]: the invalid flags of all nodes
\* and the notifications emitted so far; invalidChanged is connected to
\* _on_invalid_change, which only logs
set_invalid(i, n, flag) ==
    [invalid |-> [i.invalid EXCEPT ![n] = flag],
     emits |-> Append(i.emits, InvalidChanged(n, flag))]

-----------------------------------------------------------------------------
(* Host calls.  The view layer edits the graph between builds; the events  *)
(* handled by QApplication.processEvents() inside Node._exec are the       *)
(* delete actions of the view.                                             *)

HostMayCall == pc = "idle"

InProcessEvents == pc = "events"

Attached == UNION {SocketsOf(G, n) : n \in scene_nodes}

\* socket pairs the view offers for connection: an output and an input of
\* the same data type on two different nodes
Connectable(s, t) ==
    /\ s # t
    /\ sockets[s].is_input # sockets[t].is_input
    /\ sockets[s].data_type = sockets[t].data_type
    /\ sockets[s].node # sockets[t].node

\* Socket.add_edge(other_socket)
add_edge(s, t) ==
    /\ HostMayCall
    /\ s \in Attached /\ t \in Attached
    /\ Connectable(s, t)
    /\ IF AtLimit(G, s) \/ AtLimit(G, t)
       THEN /\ last_error' = "ConnectionLimitError"
            /\ UNCHANGED graph_vars
       ELSE /\ last_error' = "none"
            /\ SetGraph(RecordEdge(G, s, t))
    /\ UNCHANGED <<flag_vars, graphics_node, scene_nodes, build_vars>>
    /\ signals' = << >>
    /\ returned' = NoValue
    /\ UNCHANGED <<tooltip, model_vars>>
    /\ UNCHANGED server_vars

\* Socket.remove_edge(edge)
remove_edge(s, t) ==
    /\ HostMayCall
    /\ s \in Attached
    /\ t \in Range(sockets[s].connections)
    /\ SetGraph(DropEdge(G, s, t))
    /\ last_error' = "none"
    /\ UNCHANGED <<flag_vars, graphics_node, scene_nodes, build_vars>>
    /\ signals' = << >>
    /\ returned' = NoValue
    /\ UNCHANGED <<tooltip, model_vars>>
    /\ UNCHANGED server_vars

\* Socket.remove_all_edges()
remove_all_edges(s) ==
    /\ HostMayCall
    /\ s \in Attached
    /\ SetGraph(RemoveAllEdges(G, s))
    /\ last_error' = "none"
    /\ UNCHANGED <<flag_vars, graphics_node, scene_nodes, build_vars>>
    /\ signals' = << >>
    /\ returned' = NoValue
    /\ UNCHANGED <<tooltip, model_vars>>
    /\ UNCHANGED server_vars

\* Node.set_compiled(flag) called from outside the engine
SetCompiled(n, flag) ==
    /\ HostMayCall
    /\ n \in scene_nodes
    /\ LET c == set_compiled(G, [compiled |-> is_compiled, err |-> FALSE, emits |-> << >>],
                              n, flag, 1)
       IN  /\ is_compiled' = c.compiled
           /\ signals' = c.emits
           /\ last_error' = IF c.err THEN "RecursionError" ELSE "none"
    /\ returned' = NoValue
    /\ UNCHANGED <<graph_vars, is_invalid, is_executing, graphics_node, scene_nodes,
                   build_vars, tooltip, model_vars>>
    /\ UNCHANGED server_vars

\* Node.set_invalid(flag) called from outside the engine
SetInvalid(n, flag) ==
    /\ HostMayCall
    /\ n \in scene_nodes
    /\ LET i == set_invalid([invalid |-> is_invalid, emits |-> << >>], n, flag)
       IN  /\ is_invalid' = i.invalid
           /\ signals' = i.emits
    /\ last_error' = "none"
    /\ returned' = NoValue
    /\ UNCHANGED <<graph_vars, is_compiled, is_executing, graphics_node, scene_nodes,
                   build_vars, tooltip, model_vars>>
    /\ UNCHANGED server_vars

\* remove_all_connections(include_exec=True) in which the raiseAt-th call
\* of Socket.remove_all_edges raises: the sockets before it have lost their
\* edges
RemoveConnectionsUntil(g, n, raiseAt) ==
    RemoveEdgesOf(g, SubSeq(g.inputs[n] \o g.outputs[n], 1, raiseAt - 1))

\* Node.remove that goes on to BaseNode.remove after a failed edge removal
RemoveNode_NoReturn(n, raiseAt) ==
    /\ (HostMayCall \/ InProcessEvents)
    /\ n \in scene_nodes
    /\ raiseAt \in 0..Len(inputs[n] \o outputs[n])
    /\ IF raiseAt = 0
       THEN /\ SetGraph(RemoveAllConnections(G, n, TRUE))
            /\ last_error' = "none"
       ELSE /\ SetGraph(RemoveConnectionsUntil(G, n, raiseAt))
            /\ last_error' = "Failed to delete node"
    /\ graphics_node' = [graphics_node EXCEPT ![n] = FALSE]
    /\ scene_nodes' = scene_nodes \ {n}
    /\ UNCHANGED <<flag_vars, build_vars>>
    /\ signals' = << >>
    /\ returned' = NoValue
    /\ UNCHANGED <<tooltip, model_vars>>
    /\ UNCHANGED server_vars

\* Node.remove, then BaseNode.remove.  raiseAt = 0: no call raises;
\* raiseAt = k: the k-th Socket.remove_all_edges call raises
RemoveNode(n, raiseAt) ==
    /\ (HostMayCall \/ InProcessEvents)
    /\ n \in scene_nodes
    /\ raiseAt \in 0..Len(inputs[n] \o outputs[n])
    /\ IF raiseAt = 0
       THEN /\ SetGraph(RemoveAllConnections(G, n, TRUE))
            /\ graphics_node' = [graphics_node EXCEPT ![n] = FALSE]
            /\ scene_nodes' = scene_nodes \ {n}
            /\ last_error' = "none"
       ELSE /\ SetGraph(RemoveConnectionsUntil(G, n, raiseAt))
            /\ last_error' = "Failed to delete node"
            /\ UNCHANGED <<graphics_node, scene_nodes>>
    /\ UNCHANGED <<flag_vars, build_vars>>
    /\ signals' = << >>
    /\ returned' = NoValue
    /\ UNCHANGED <<tooltip, model_vars>>
    /\ UNCHANGED server_vars

-----------------------------------------------------------------------------
(* Node execution *)

\* what a node's execute() is made to do: run normally, raise, or have the
\* following update_affected_outputs() raise
Faults == {"none", "execute", "update_affected_outputs"}

\* execute() of the node types: the Add node stores a + b in its result
\* output and raises TypeError when an operand is None or a socket is gone;
\* Start and Print keep Node.execute, which does no work
execute(g, n) ==
    IF n # "Add" THEN [g |-> g, raised |-> FALSE]
    ELSE LET a == FirstWithLabel(g, g.inputs[n], "a")
             b == FirstWithLabel(g, g.inputs[n], "b")
             r == FirstWithLabel(g, g.outputs[n], "result")
         IN  IF a = {} \/ b = {} \/ r = {} THEN [g |-> g, raised |-> TRUE]
             ELSE LET va == SocketValue(g, CHOOSE x \in a : TRUE)
                      vb == SocketValue(g, CHOOSE x \in b : TRUE)
                      rs == CHOOSE x \in r : TRUE
                  IN  IF va = None \/ vb = None THEN [g |-> g, raised |-> TRUE]
                      ELSE [g |-> [g EXCEPT !.sockets[rs].value = IntVal(va[1] + vb[1])],
                            raised |-> FALSE]

\* _exec whose except clause does not re-raise
ExecTry_NoRaise(n, fault) ==
    LET e == IF fault = "execute" THEN [g |-> G, raised |-> TRUE] ELSE execute(G, n)
        failed == e.raised \/ fault = "update_affected_outputs"
        quiet == [compiled |-> is_compiled, err |-> FALSE, emits |-> << >>]
        c == IF failed THEN quiet ELSE set_compiled(G, quiet, n, TRUE, 1)
        i == IF failed
             THEN set_invalid([invalid |-> is_invalid, emits |-> c.emits], n, TRUE)
             ELSE set_invalid([invalid |-> is_invalid, emits |-> c.emits], n, FALSE)
    IN  /\ SetGraph(e.g)
        /\ is_compiled' = c.compiled
        /\ is_invalid' = i.invalid
        /\ signals' = i.emits
        /\ UNCHANGED tooltip  \* append_tooltip adds an 'Execution error' line only
        /\ is_executing' = [is_executing EXCEPT ![n] = FALSE]
        /\ outcomes' = Append(outcomes,
                              [node |-> n,
                               fault |-> IF failed /\ fault = "none" THEN "execute" ELSE fault,
                               raised |-> FALSE])

\* _exec without the finally clause that clears _is_executing
ExecTry_NoFinally(n, fault) ==
    LET e == IF fault = "execute" THEN [g |-> G, raised |-> TRUE] ELSE execute(G, n)
        failed == e.raised \/ fault = "update_affected_outputs"
        quiet == [compiled |-> is_compiled, err |-> FALSE, emits |-> << >>]
        c == IF failed THEN quiet ELSE set_compiled(G, quiet, n, TRUE, 1)
        i == IF failed
             THEN set_invalid([invalid |-> is_invalid, emits |-> c.emits], n, TRUE)
             ELSE set_invalid([invalid |-> is_invalid, emits |-> c.emits], n, FALSE)
    IN  /\ SetGraph(e.g)
        /\ is_compiled' = c.compiled
        /\ is_invalid' = i.invalid
        /\ signals' = i.emits
        /\ UNCHANGED tooltip  \* append_tooltip adds an 'Execution error' line only
        /\ UNCHANGED is_executing
        /\ outcomes' = Append(outcomes,
                              [node |-> n,
                               fault |-> IF failed /\ fault = "none" THEN "execute" ELSE fault,
                               raised |-> failed])

\* the try / except / finally statement of Node._exec
ExecTry(n, fault) ==
    LET e == IF fault = "execute" THEN [g |-> G, raised |-> TRUE] ELSE execute(G, n)
        failed == e.raised \/ fault = "update_affected_outputs"
        quiet == [compiled |-> is_compiled, err |-> FALSE, emits |-> << >>]
        c == IF failed THEN quiet ELSE set_compiled(G, quiet, n, TRUE, 1)
        i == IF failed
             THEN set_invalid([invalid |-> is_invalid, emits |-> c.emits], n, TRUE)
             ELSE set_invalid([invalid |-> is_invalid, emits |-> c.emits], n, FALSE)
    IN  /\ SetGraph(e.g)
        /\ is_compiled' = c.compiled
        /\ is_invalid' = i.invalid
        /\ signals' = i.emits
        /\ UNCHANGED tooltip  \* append_tooltip adds an 'Execution error' line only
        /\ is_executing' = [is_executing EXCEPT ![n] = FALSE]
        /\ outcomes' = Append(outcomes,
                              [node |-> n,
                               fault |-> IF failed /\ fault = "none" THEN "execute" ELSE fault,
                               raised |-> failed])

\* Node._exec up to QApplication.processEvents()
ExecEnter ==
    /\ pc = "call"
    /\ is_executing' = [is_executing EXCEPT ![queue[pos]] = TRUE]
    /\ pc' = "events"
    /\ UNCHANGED <<graph_vars, is_compiled, is_invalid, graphics_node, scene_nodes,
                   root, queue, pos, outcomes, result, last_error>>
    /\ signals' = << >>
    /\ returned' = NoValue
    /\ UNCHANGED <<tooltip, model_vars>>
    /\ UNCHANGED server_vars

\* Node._exec from self._graphics_node.update() to its end
ExecBody(fault) ==
    /\ pc = "events"
    /\ pc' = "returned"
    /\ IF graphics_node[queue[pos]]
       THEN ExecTry(queue[pos], fault)
       ELSE \* AttributeError on None, raised before the try statement
            /\ fault = "none"
            /\ outcomes' = Append(outcomes, [node |-> queue[pos], fault |-> "graphics_node",
                                             raised |-> TRUE])
            /\ signals' = << >>
            /\ UNCHANGED <<graph_vars, flag_vars, tooltip>>
    /\ returned' = NoValue
    /\ UNCHANGED <<graphics_node, scene_nodes, root, queue, pos, result, last_error,
                   model_vars>>
    /\ UNCHANGED server_vars

-----------------------------------------------------------------------------
(* Build: the execution queue of a root node is executed in order; an      *)
(* exception of Node._exec propagates out of the build.                    *)

BuildStart(n) ==
    /\ pc = "idle"
    /\ n \in scene_nodes
    /\ root' = n
    /\ LET r == exec_queue(G, n, 1)
       IN  IF r.err
           THEN /\ result' = "RecursionError"
                /\ queue' = << >>
                /\ pos' = 0
                /\ pc' = "finished"
           ELSE /\ result' = "running"
                /\ queue' = r.q
                /\ pos' = 1
                /\ pc' = "call"
    /\ outcomes' = << >>
    /\ UNCHANGED <<graph_vars, flag_vars, graphics_node, scene_nodes, last_error>>
    /\ signals' = << >>
    /\ returned' = NoValue
    /\ UNCHANGED <<tooltip, model_vars>>
    /\ UNCHANGED server_vars

BuildNext ==
    /\ pc = "returned"
    /\ IF outcomes[Len(outcomes)].raised
       THEN /\ result' = "failed"
            /\ pc' = "finished"
            /\ UNCHANGED pos
       ELSE IF pos < Len(queue)
       THEN /\ pos' = pos + 1
            /\ pc' = "call"
            /\ UNCHANGED result
       ELSE /\ result' = "ok"
            /\ pc' = "finished"
            /\ UNCHANGED pos
    /\ UNCHANGED <<graph_vars, flag_vars, graphics_node, scene_nodes, root, queue,
                   outcomes, last_error>>
    /\ signals' = << >>
    /\ returned' = NoValue
    /\ UNCHANGED <<tooltip, model_vars>>
    /\ UNCHANGED server_vars

\* the build call returns to the host; its locals are gone
BuildReturn ==
    /\ pc = "finished"
    /\ pc' = "idle"
    /\ root' = "none"
    /\ queue' = << >>
    /\ pos' = 0
    /\ outcomes' = << >>
    /\ result' = "none"
    /\ UNCHANGED <<graph_vars, flag_vars, graphics_node, scene_nodes, last_error>>
    /\ signals' = << >>
    /\ returned' = NoValue
    /\ UNCHANGED <<tooltip, model_vars>>
    /\ UNCHANGED server_vars

-----------------------------------------------------------------------------
(* Specification of the engine and of the host's edge and status calls *)

SocketIds == DOMAIN sockets

Next ==
    \/ \E s, t \in SocketIds : add_edge(s, t)
    \/ \E s, t \in SocketIds : remove_edge(s, t)
    \/ \E n \in Nodes, flag \in BOOLEAN : SetCompiled(n, flag)
    \/ \E n \in Nodes, flag \in BOOLEAN : SetInvalid(n, flag)
    \/ \E n \in Nodes : BuildStart(n)
    \/ ExecEnter
    \/ \E fault \in Faults : ExecBody(fault)
    \/ BuildNext
    \/ BuildReturn

Spec == Init /\ [][Next]_vars

\* The engine alone sets the status flags: the host edits edges, removes
\* nodes and runs builds, and calls neither set_compiled nor set_invalid.
NextEngine ==
    \/ \E s, t \in SocketIds : add_edge(s, t)
    \/ \E s, t \in SocketIds : remove_edge(s, t)
    \/ \E n \in Nodes, raiseAt \in 0..Len(sockets) : RemoveNode(n, raiseAt)
    \/ \E n \in Nodes : BuildStart(n)
    \/ ExecEnter
    \/ \E fault \in Faults : ExecBody(fault)
    \/ BuildNext
    \/ BuildReturn

SpecEngine == Init /\ [][NextEngine]_vars

-----------------------------------------------------------------------------------------------------------------------------------------------------
(* Socket editing: the host adds and removes sockets and edges in a scene  *)
(* that holds an Add and a Print node.                                     *)

EditedNodes == {"Add", "Print"}

ConstructedEdited ==
    SetupPrint(SetupExecSockets(SetupAdd(SetupExecSockets(EmptyGraph, "Add")), "Print"))

InitSockets ==
    /\ sockets = ConstructedEdited.sockets
    /\ inputs = ConstructedEdited.inputs
    /\ outputs = ConstructedEdited.outputs
    /\ required_inputs = ConstructedEdited.required_inputs
    /\ is_compiled = [n \in Nodes |-> FALSE]
    /\ is_invalid = [n \in Nodes |-> FALSE]
    /\ is_executing = [n \in Nodes |-> FALSE]
    /\ graphics_node = [n \in Nodes |-> n \in EditedNodes]
    /\ scene_nodes = EditedNodes
    /\ pc = "idle"
    /\ root = "none"
    /\ queue = << >>
    /\ pos = 0
    /\ outcomes = << >>
    /\ result = "none"
    /\ last_error = "none"
    /\ signals = << >>
    /\ tooltip = [n \in Nodes |-> EmptyToolTip]
    /\ returned = NoValue
    /\ model_nodes = {}
    /\ factory_count = 0
    /\ ServerConstructed(FALSE)

\* allocation budget of the editing session
CanAllocate == Len(sockets) < Len(ConstructedEdited.sockets) + MaxNewSockets

\* max_connections arguments the host passes to add_output
MaxConnectionsArgs == {0, 2}

\* Node.add_input(data_type, label, value)
add_input(n, dataType, label, value) ==
    /\ HostMayCall
    /\ n \in scene_nodes
    /\ CanAllocate
    /\ SetGraph(AddInput(G, n, dataType, label, value))
    /\ last_error' = "none"
    /\ UNCHANGED <<flag_vars, graphics_node, scene_nodes, build_vars>>
    /\ signals' = << >>
    /\ returned' = NoValue
    /\ UNCHANGED <<tooltip, model_vars>>
    /\ UNCHANGED server_vars

\* Node.add_output(data_type, label, max_connections, value)
add_output(n, dataType, label, maxConnections, value) ==
    /\ HostMayCall
    /\ n \in scene_nodes
    /\ CanAllocate
    /\ SetGraph(AddOutput(G, n, dataType, label, maxConnections, value))
    /\ last_error' = "none"
    /\ UNCHANGED <<flag_vars, graphics_node, scene_nodes, build_vars>>
    /\ signals' = << >>
    /\ returned' = NoValue
    /\ UNCHANGED <<tooltip, model_vars>>
    /\ UNCHANGED server_vars

\* Node.remove_socket(name, is_input)
remove_socket(n, name, isInput) ==
    /\ HostMayCall
    /\ n \in scene_nodes
    /\ SetGraph(RemoveSocket(G, n, name, isInput))
    /\ last_error' = "none"
    /\ UNCHANGED <<flag_vars, graphics_node, scene_nodes, build_vars>>
    /\ signals' = << >>
    /\ returned' = NoValue
    /\ UNCHANGED <<tooltip, model_vars>>
    /\ UNCHANGED server_vars

NextSockets ==
    \/ \E n \in Nodes, dt \in DataTypes : add_input(n, dt, "b", None)
    \/ \E n \in Nodes, dt \in DataTypes, m \in MaxConnectionsArgs :
          add_output(n, dt, "result", m, None)
    \/ \E n \in Nodes, l \in Labels, isInput \in BOOLEAN : remove_socket(n, l, isInput)
    \/ \E s, t \in SocketIds : add_edge(s, t)
    \/ \E s, t \in SocketIds : remove_edge(s, t)
    \/ \E s \in SocketIds : remove_all_edges(s)

SpecSockets == InitSockets /\ [][NextSockets]_vars

-----------------------------------------------------------------------------
(* Structural edits of nodes with a status: the host adds and removes      *)
(* sockets of nodes it has marked compiled or not compiled.                *)

NextStructure ==
    \/ \E n \in Nodes, dt \in DataTypes : add_input(n, dt, "b", None)
    \/ \E n \in Nodes, dt \in DataTypes, m \in MaxConnectionsArgs :
          add_output(n, dt, "result", m, None)
    \/ \E n \in Nodes, l \in Labels, isInput \in BOOLEAN : remove_socket(n, l, isInput)
    \/ \E n \in Nodes, flag \in BOOLEAN : SetCompiled(n, flag)

SpecStructure == InitSockets /\ [][NextStructure]_vars

-----------------------------------------------------------------------------
(* Removal: the host removes sockets, all sockets of a node, and nodes, in *)
(* the scene that holds an Add and a Print node, and reads socket values   *)
(* through Node.value.                                                     *)

\* Node.remove_existing_sockets: the graphics items of the sockets are taken
\* out of the graphics scene and the two lists are cleared
RemoveExistingSockets(g, n) ==
    [g EXCEPT !.inputs[n] = << >>, !.outputs[n] = << >>]

\* Node.remove_existing_sockets()
remove_existing_sockets(n) ==
    /\ HostMayCall
    /\ n \in scene_nodes
    /\ SetGraph(RemoveExistingSockets(G, n))
    /\ last_error' = "none"
    /\ signals' = << >>
    /\ returned' = NoValue
    /\ UNCHANGED <<flag_vars, graphics_node, scene_nodes, build_vars, tooltip, model_vars>>
    /\ UNCHANGED server_vars

\* attribute names the host passes to Node.value: the exec socket
\* properties, the attributes the node types bind their labelled sockets
\* to in setup_sockets, two attributes that are no sockets, and a name the
\* node has no attribute for
AttributeNames ==
    {"exec_in_socket", "exec_out_socket", "a", "b", "result", "title", "inputs",
     "no_such_attribute"}

\* sockets the construction of the scene has bound to the attribute
BoundSockets(n, name) ==
    {s \in DOMAIN ConstructedEdited.sockets :
        LET c == ConstructedEdited.sockets[s]
        IN  /\ c.node = n
            /\ \/ name = "exec_in_socket" /\ c.data_type = Exec /\ c.is_input
               \/ name = "exec_out_socket" /\ c.data_type = Exec /\ ~c.is_input
               \/ name \in Labels /\ c.label = name}

\* getattr(self, socket_name): a socket, another object, or AttributeError
GetAttr(n, name) ==
    IF BoundSockets(n, name) # {}
    THEN [kind |-> "socket", ref |-> CHOOSE s \in BoundSockets(n, name) : TRUE]
    ELSE IF name \in {"title", "inputs"} THEN [kind |-> "other", ref |-> 0]
    ELSE [kind |-> "missing", ref |-> 0]

\* Node.value that returns None for a name that is no socket
NodeValue_Lenient(n, socket_name) ==
    /\ HostMayCall
    /\ n \in scene_nodes
    /\ LET found_socket == GetAttr(n, socket_name)
       IN  returned' = [call |-> "value", node |-> n, name |-> socket_name,
                        raised |-> FALSE,
                        value |-> IF found_socket.kind = "socket"
                                  THEN SocketValue(G, found_socket.ref) ELSE None]
    /\ last_error' = "none"
    /\ signals' = << >>
    /\ UNCHANGED <<graph_vars, flag_vars, graphics_node, scene_nodes, build_vars, tooltip,
                   model_vars>>
    /\ UNCHANGED server_vars

\* Node.value(socket_name)
NodeValue(n, socket_name) ==
    /\ HostMayCall
    /\ n \in scene_nodes
    /\ LET found_socket == GetAttr(n, socket_name)
       IN  IF found_socket.kind # "socket"
           THEN /\ last_error' = "AttributeError"
                /\ returned' = [call |-> "value", node |-> n, name |-> socket_name,
                                raised |-> TRUE, value |-> None]
           ELSE /\ last_error' = "none"
                /\ returned' = [call |-> "value", node |-> n, name |-> socket_name,
                                raised |-> FALSE,
                                value |-> SocketValue(G, found_socket.ref)]
    /\ signals' = << >>
    /\ UNCHANGED <<graph_vars, flag_vars, graphics_node, scene_nodes, build_vars, tooltip,
                   model_vars>>
    /\ UNCHANGED server_vars

NextRemoval ==
    \/ \E n \in Nodes, name \in AttributeNames : NodeValue(n, name)
    \/ \E n \in Nodes, l \in Labels, isInput \in BOOLEAN : remove_socket(n, l, isInput)
    \/ \E n \in Nodes : remove_existing_sockets(n)
    \/ \E n \in Nodes, raiseAt \in 0..Len(sockets) : RemoveNode(n, raiseAt)
    \/ \E s, t \in SocketIds : add_edge(s, t)
    \/ \E s, t \in SocketIds : remove_edge(s, t)

SpecRemoval == InitSockets /\ [][NextRemoval]_vars

-----------------------------------------------------------------------------
(* Required inputs and verification: the host marks inputs as required,    *)
(* edits edges and sockets and verifies the nodes, in the scene that holds *)
(* an Add and a Print node.                                                *)

\* Node.verify_inputs: tip is the tooltip before the call; the result holds
\* the tooltip after it and the value returned
verify_inputs(g, tip, n) ==
    LET invalid_inputs ==
            SelectSeq(g.required_inputs[n],
                      LAMBDA s : ~has_edge(g, s) /\ ~Truthy(SocketValue(g, s)))
    IN  [tooltip |-> tip \o [k \in DOMAIN invalid_inputs |->
                                 g.sockets[invalid_inputs[k]].label],
         value |-> invalid_inputs = << >>]

\* Node.verify()
verify(n) ==
    /\ HostMayCall
    /\ n \in scene_nodes
    /\ LET r == verify_inputs(G, << >>, n)
       IN  /\ tooltip' = [tooltip EXCEPT ![n] = r.tooltip]
           /\ returned' = [call |-> "verify", node |-> n, value |-> r.value]
    /\ signals' = << >>
    /\ last_error' = "none"
    /\ UNCHANGED <<graph_vars, flag_vars, graphics_node, scene_nodes, build_vars,
                   model_vars>>
    /\ UNCHANGED server_vars

\* entries of all required-inputs queues
TotalRequired(g) ==
    Len(g.required_inputs["Start"]) + Len(g.required_inputs["Add"])
        + Len(g.required_inputs["Print"])

\* marking budget of the session
CanMark == TotalRequired(G) < TotalRequired(ConstructedEdited) + MaxMarks

\* Node.mark_input_as_required(input_socket) with a socket argument
mark_input_as_required(n, s) ==
    /\ HostMayCall
    /\ n \in scene_nodes
    /\ s \in Range(inputs[n])
    /\ CanMark
    /\ SetGraph(MarkInputAsRequired(G, n, s))
    /\ last_error' = "none"
    /\ signals' = << >>
    /\ returned' = NoValue
    /\ UNCHANGED <<flag_vars, graphics_node, scene_nodes, build_vars, tooltip, model_vars>>
    /\ UNCHANGED server_vars

\* Node.mark_input_as_required(label) with a label argument: the first input
\* with that label is marked; a label no input has is logged and ignored
mark_label_as_required(n, label) ==
    /\ HostMayCall
    /\ n \in scene_nodes
    /\ CanMark
    /\ LET found == FirstWithLabel(G, inputs[n], label)
       IN  IF found = {}
           THEN UNCHANGED graph_vars
           ELSE SetGraph(MarkInputAsRequired(G, n, CHOOSE s \in found : TRUE))
    /\ last_error' = "none"
    /\ signals' = << >>
    /\ returned' = NoValue
    /\ UNCHANGED <<flag_vars, graphics_node, scene_nodes, build_vars, tooltip, model_vars>>
    /\ UNCHANGED server_vars

NextRequired ==
    \/ \E n \in Nodes, s \in SocketIds : mark_input_as_required(n, s)
    \/ \E n \in Nodes, l \in Labels : mark_label_as_required(n, l)
    \/ \E n \in Nodes : verify(n)
    \/ \E n \in Nodes, l \in Labels : remove_socket(n, l, TRUE)
    \/ \E s, t \in SocketIds : add_edge(s, t)
    \/ \E s, t \in SocketIds : remove_edge(s, t)

SpecRequired == InitSockets /\ [][NextRequired]_vars

-----------------------------------------------------------------------------
(* The graph container: the view layer creates nodes through NodeGraph,    *)
(* removes nodes and edits edges.  Node objects made by the factory are    *)
(* identified by their creation number.                                    *)

\* node type tags the view passes, and the ones the factory has a class for
NodeTypes == {"Add", "Print", "Unknown"}
RegisteredTypes == {"Add", "Print"}

\* factory.create_node(node_type): a new node object of the registered
\* class, UnknownNodeTypeError for any other type tag
factory_create_node(count, nodeType) ==
    IF nodeType \in RegisteredTypes
    THEN [raised |-> FALSE, node |-> count + 1]
    ELSE [raised |-> TRUE, node |-> None]

\* NodeGraph.node_by_id: self._model.nodes.get(node_id); a node is
\* identified by its id
node_by_id(nodes, id) == IF id \in nodes THEN id ELSE None

\* NodeGraph.create_node(node_type): the body assigns the factory's node to
\* the local new_node and ends; the call returns None
create_node(nodeType) ==
    /\ HostMayCall
    /\ factory_count < MaxCreated
    /\ LET new_node == factory_create_node(factory_count, nodeType)
       IN  IF new_node.raised
           THEN /\ last_error' = "UnknownNodeTypeError"
                /\ returned' = NoValue
                /\ UNCHANGED factory_count
           ELSE /\ last_error' = "none"
                /\ returned' = [call |-> "create_node", node |-> "none", value |-> None]
                /\ factory_count' = new_node.node
    /\ signals' = << >>
    /\ UNCHANGED <<graph_vars, flag_vars, graphics_node, scene_nodes, build_vars, tooltip,
                   model_nodes>>
    /\ UNCHANGED server_vars

NextGraph ==
    \/ \E nodeType \in NodeTypes : create_node(nodeType)
    \/ \E n \in Nodes, raiseAt \in 0..Len(sockets) : RemoveNode(n, raiseAt)
    \/ \E s, t \in SocketIds : add_edge(s, t)
    \/ \E s, t \in SocketIds : remove_edge(s, t)

SpecGraph == InitSockets /\ [][NextGraph]_vars

-----------------------------------------------------------------------------
(* Command server (server.py) *)

\* number of requests a run sends to the server
MaxRequests == 2

\* Server.Commands: the values of the class attributes
Commands_SHUTDOWN == "TP DCC_SHUTDOWN"
Commands_LS == "TP DCC_LS"

\* names of the attributes of Server.Commands
CommandAttributes ==
    {"SHUTDOWN", "LS", "RELOAD_MODULES", "LOAD", "UNLOAD", "FUNCTION_HELP"}

\* dir(Server.Commands): the names of the attributes of the class, never
\* their values (the names every class has are left out)
DirCommands == CommandAttributes

\* Server.Errors
Errors_SERVER_COMMAND == "ERROR 0x3: An error occurred processing this server command"
Errors_TIMEOUT == "ERROR 0x5: The command timed out"

\* functions found in the __dict__ of the loaded modules
ModuleFunctions == {"module_function"}

\* function names of the requests
FunctionNames ==
    {Commands_SHUTDOWN, Commands_LS, "SHUTDOWN", "module_function", "missing_function"}

\* Server.function_by_name: TRUE when a loaded module has the function
function_by_name(function_name) == function_name \in ModuleFunctions

\* Server._process_server_command: the result and whether stop_listening ran
process_server_command(function_name, id) ==
    IF function_name = Commands_SHUTDOWN
    THEN [result |-> make_result(TRUE, "Server offline", Commands_SHUTDOWN, id),
          stop |-> TRUE]
    ELSE IF function_name = Commands_LS
    THEN [result |-> make_result(TRUE, "functions", Commands_LS, id), stop |-> FALSE]
    ELSE [result |-> make_result(FALSE, Errors_SERVER_COMMAND, "None", id),
          stop |-> FALSE]

\* Server._process_module_command without the executor: the function is
\* called in the server thread; calling None or a raising function gives a
\* failure with the traceback
call_module_function(function_name, id, raises) ==
    IF function_by_name(function_name) /\ ~raises
    THEN make_result(TRUE, "return value", function_name, id)
    ELSE make_result(FALSE, "traceback", function_name, id)

\* one pass of the loop of start_listening: handle_request, do_POST and
\* filter_and_execute_function up to the result or the wait for the executor
HandleRequest(function_name, raises) ==
    /\ server_pc = "loop"
    /\ keep_running
    /\ served < MaxRequests
    /\ served' = served + 1
    /\ request' = [id |-> served + 1, function_name |-> function_name]
    /\ IF function_name \in DirCommands
       THEN LET r == process_server_command(function_name, served + 1) IN
            /\ keep_running' = (IF r.stop THEN FALSE ELSE keep_running)
            /\ result_local' = r.result
            /\ server_pc' = "returning"
            /\ UNCHANGED pending
       ELSE IF use_main_thread_executor
       THEN /\ pending' = Append(pending, request')
            /\ server_pc' = "waiting"
            /\ UNCHANGED <<keep_running, result_local>>
       ELSE /\ result_local' = call_module_function(function_name, served + 1, raises)
            /\ server_pc' = "returning"
            /\ UNCHANGED <<keep_running, pending>>
    /\ UNCHANGED <<use_main_thread_executor, executor_reply, responses>>
    /\ UNCHANGED nodegraph_vars

\* the wait loop of _process_module_command runs out of time
WaitTimeout ==
    /\ server_pc = "waiting"
    /\ executor_reply = NoReply
    /\ executor_reply' = make_result(FALSE, Errors_TIMEOUT, request.function_name,
                                     request.id)
    /\ UNCHANGED <<use_main_thread_executor, keep_running, server_pc, request,
                   result_local, pending, served, responses>>
    /\ UNCHANGED nodegraph_vars

\* the wait loop of _process_module_command finds a reply and returns it
WaitReturn ==
    /\ server_pc = "waiting"
    /\ executor_reply # NoReply
    /\ result_local' = executor_reply
    /\ server_pc' = "returning"
    /\ UNCHANGED <<use_main_thread_executor, keep_running, executor_reply, request,
                   pending, served, responses>>
    /\ UNCHANGED nodegraph_vars

\* the end of filter_and_execute_function and of do_POST: the reply slot is
\* cleared and the result is written to the client
Respond ==
    /\ server_pc = "returning"
    /\ executor_reply' = NoReply
    /\ responses' = Append(responses, [id |-> request.id,
                                       function_name |-> request.function_name,
                                       result |-> result_local])
    /\ request' = NoRequest
    /\ result_local' = NoReply
    /\ server_pc' = "loop"
    /\ UNCHANGED <<use_main_thread_executor, keep_running, pending, served>>
    /\ UNCHANGED nodegraph_vars

\* the main-thread executor runs the oldest command it was sent and stores
\* its reply in the server
ExecutorReply(success) ==
    /\ pending # << >>
    /\ executor_reply' = make_result(success, "return value",
                                     Head(pending).function_name, Head(pending).id)
    /\ pending' = Tail(pending)
    /\ UNCHANGED <<use_main_thread_executor, keep_running, server_pc, request,
                   result_local, served, responses>>
    /\ UNCHANGED nodegraph_vars

\* Server.stop_listening called by the host
StopListening ==
    /\ keep_running
    /\ keep_running' = FALSE
    /\ UNCHANGED <<use_main_thread_executor, executor_reply, server_pc, request,
                   result_local, pending, served, responses>>
    /\ UNCHANGED nodegraph_vars

\* the loop of start_listening ends and the HTTP server is closed
LoopExit ==
    /\ server_pc = "loop"
    /\ ~keep_running
    /\ server_pc' = "stopped"
    /\ UNCHANGED <<use_main_thread_executor, keep_running, executor_reply, request,
                   result_local, pending, served, responses>>
    /\ UNCHANGED nodegraph_vars

InitServer ==
    /\ sockets = Constructed.sockets
    /\ inputs = Constructed.inputs
    /\ outputs = Constructed.outputs
    /\ required_inputs = Constructed.required_inputs
    /\ is_compiled = [n \in Nodes |-> FALSE]
    /\ is_invalid = [n \in Nodes |-> FALSE]
    /\ is_executing = [n \in Nodes |-> FALSE]
    /\ graphics_node = [n \in Nodes |-> TRUE]
    /\ scene_nodes = Nodes
    /\ pc = "idle"
    /\ root = "none"
    /\ queue = << >>
    /\ pos = 0
    /\ outcomes = << >>
    /\ result = "none"
    /\ last_error = "none"
    /\ signals = << >>
    /\ tooltip = [n \in Nodes |-> EmptyToolTip]
    /\ returned = NoValue
    /\ model_nodes = {}
    /\ factory_count = 0
    /\ \E useMainThreadExecutor \in BOOLEAN : ServerConstructed(useMainThreadExecutor)

NextServer ==
    \/ \E function_name \in FunctionNames, raises \in BOOLEAN :
           HandleRequest(function_name, raises)
    \/ WaitTimeout
    \/ WaitReturn
    \/ Respond
    \/ \E success \in BOOLEAN : ExecutorReply(success)
    \/ StopListening
    \/ LoopExit

SpecServer == InitServer /\ [][NextServer]_vars

-----------------------------------------------------------------------------
(* Properties *)

\* nodes attached to the first connection of the exec outputs of n
ExecTargets(n) ==
    {sockets[sockets[s].connections[1]].node :
        s \in {x \in Range(outputs[n]) :
                 sockets[x].data_type = Exec /\ sockets[x].connections # << >>}}

\* nodes connected to any output of n
Downstream(n) ==
    {sockets[t].node :
        t \in UNION {Range(sockets[s].connections) : s \in Range(outputs[n])}}

RECURSIVE ReachFrom(_)
ReachFrom(S) ==
    LET S2 == S \cup UNION {Downstream(m) : m \in S}
    IN  IF S2 = S THEN S ELSE ReachFrom(S2)

\* nodes reachable from n through output connections of any type
Reachable(n) == ReachFrom(Downstream(n))

\* the socket of the given side of n carrying the given label
Labelled(side, n, l) == {s \in Range(side[n]) : sockets[s].label = l}

\* the queue has just been computed by exec_queue
QueueComputed == pc = "call" /\ pos = 1

LastOutcome == outcomes[Len(outcomes)]

\* C1: exec_queue() called on a root returns the root first and then follows
\* exec-output connections only: each next entry is the node on the exec
\* connection of the previous one, the last entry has no exec connection, so
\* a chain Start -> Add -> Print yields exactly <<Start, Add, Print>> and a
\* node reached through data edges only is not queued.
C1_ExecQueueFollowsExecEdges ==
    QueueComputed =>
        /\ queue[1] = root
        /\ \A i \in 1..(Len(queue) - 1) : ExecTargets(queue[i]) = {queue[i + 1]}
        /\ ExecTargets(queue[Len(queue)]) = {}
        /\ (/\ root = "Start"
            /\ ExecTargets("Start") = {"Add"}
            /\ ExecTargets("Add") = {"Print"}
            /\ ExecTargets("Print") = {}) => queue = <<"Start", "Add", "Print">>

C1_Witness ==
    /\ QueueComputed
    /\ queue = <<"Start", "Add", "Print">>

\* C2: exec_queue() terminates on every finite graph, exec cycles included:
\* every call returns a queue, none ends in unbounded recursion.
C2_ExecQueueTerminates ==
    pc = "finished" => result # "RecursionError"

\* C3: when set_compiled(false) is called on a compiled node, every node
\* reachable from it through output connections (data or exec) is not
\* compiled afterwards.
C3_CascadeReachesAll ==
    [][\A n \in Nodes :
          (pc = "idle" /\ pc' = "idle" /\ is_compiled[n] /\ ~is_compiled'[n])
              => \A m \in Reachable(n) : ~is_compiled'[m]]_vars

\* C4: after every Node._exec call the node is not executing, and when
\* execute() or update_affected_outputs() raised, the node is Invalid and
\* the exception has been propagated to the caller.
C4_CleanupOnAllPaths ==
    pc = "returned" =>
        /\ ~is_executing[LastOutcome.node]
        /\ LastOutcome.fault \in {"execute", "update_affected_outputs"} =>
              is_invalid[LastOutcome.node] /\ LastOutcome.raised

\* C5: a build is fail-fast: once the execution of a queued node has failed
\* no later node of the queue is executed, and the steps of the build leave
\* the compiled and invalid flags of the nodes later in the queue unchanged.
C5_FailFast ==
    [][/\ \A i \in 1..(Len(outcomes') - 1) : outcomes'[i].fault = "none"
       /\ pc' # pc =>
             \A i \in (pos + 1)..Len(queue) :
                 /\ is_compiled'[queue[i]] = is_compiled[queue[i]]
                 /\ is_invalid'[queue[i]] = is_invalid[queue[i]]]_vars

C5_Witness ==
    /\ pc = "finished"
    /\ result = "failed"
    /\ pos < Len(queue)
    /\ LastOutcome.fault = "execute"

\* C6: after a build of the chain Start -> Add -> Print in which every node
\* executed successfully, with Add's result connected to Print's input,
\* Print's input reads 5 = 2 + 3 and every node of the chain is compiled,
\* not invalid and not executing.
C6_EndToEnd ==
    (/\ pc = "finished"
     /\ result = "ok"
     /\ queue = <<"Start", "Add", "Print">>
     /\ \E s \in Labelled(inputs, "Print", "a"), r \in Labelled(outputs, "Add", "result") :
           sockets[s].connections = <<r>>)
    => /\ \A s \in Labelled(inputs, "Print", "a") : SocketValue(G, s) = IntVal(5)
       /\ \A n \in Range(queue) :
             is_compiled[n] /\ ~is_invalid[n] /\ ~is_executing[n]

C6_Witness ==
    /\ pc = "finished"
    /\ result = "ok"
    /\ queue = <<"Start", "Add", "Print">>
    /\ \E s \in Labelled(inputs, "Print", "a"), r \in Labelled(outputs, "Add", "result") :
          sockets[s].connections = <<r>>
    /\ \A s \in Labelled(inputs, "Print", "a") : SocketValue(G, s) = IntVal(5)

\* the connection set of s is at its nonzero max_connections
LimitReached(s) ==
    /\ sockets[s].max_connections # 0
    /\ Len(sockets[s].connections) >= sockets[s].max_connections

\* sockets allocated by the editing session
NewSocketIds == {s \in DOMAIN sockets : s > Len(ConstructedEdited.sockets)}

\* C7: after any sequence of add_input, add_output and remove_socket calls
\* the socket at position i of a node's inputs (outputs) has index i - 1.
C7_DenseIndices ==
    \A n \in Nodes :
        /\ \A i \in DOMAIN inputs[n] : sockets[inputs[n][i]].index = i - 1
        /\ \A i \in DOMAIN outputs[n] : sockets[outputs[n][i]].index = i - 1

C7_Witness ==
    /\ Labelled(inputs, "Add", "a") = {}
    /\ Len(inputs["Add"]) = 3
    /\ NewSocketIds \cap Range(inputs["Add"]) # {}

\* C8: add_edge on a socket whose connection set is at its nonzero
\* max_connections fails with ConnectionLimitError and changes nothing: a
\* failing call leaves every socket as it was, and no call adds a connection
\* to a socket that was at its limit.
C8_AddEdgeAllOrNothing ==
    [][/\ last_error' = "ConnectionLimitError" => sockets' = sockets
       /\ \A s \in DOMAIN sockets :
             Len(sockets'[s].connections) > Len(sockets[s].connections)
                 => ~LimitReached(s)]_vars

C8_Witness ==
    /\ last_error = "ConnectionLimitError"
    /\ \E s \in DOMAIN sockets :
          /\ sockets[s].max_connections = 1
          /\ Len(sockets[s].connections) = 1

\* C9: edge bookkeeping is symmetric: t is in the connections of s if and
\* only if s is in the connections of t.
C9_SymmetricEdges ==
    \A s, t \in DOMAIN sockets :
        t \in Range(sockets[s].connections) <=> s \in Range(sockets[t].connections)

C9_Witness ==
    /\ \E s \in DOMAIN sockets : Len(sockets[s].connections) = 2
    /\ \E s \in DOMAIN sockets : Range(sockets[s].connections) = {} /\ s \notin Attached

\* C10: an input socket holds at most one edge and has max_connections = 1;
\* an output socket with nonzero max_connections holds at most that many.
C10_ConnectionLimits ==
    \A s \in DOMAIN sockets :
        IF sockets[s].is_input
        THEN sockets[s].max_connections = 1 /\ Len(sockets[s].connections) <= 1
        ELSE sockets[s].max_connections # 0 =>
                 Len(sockets[s].connections) <= sockets[s].max_connections

C10_Witness ==
    \E s \in NewSocketIds, t \in DOMAIN sockets :
        /\ sockets[s].is_input
        /\ sockets[s].connections = <<t>>
        /\ sockets[t].max_connections = 0
        /\ Len(sockets[t].connections) = 2

\* the graph after the step
GAfter ==
    [sockets |-> sockets', inputs |-> inputs', outputs |-> outputs',
     required_inputs |-> required_inputs']

\* the step connected output s to input t
Connected(s, t) ==
    /\ ~sockets[s].is_input /\ sockets[t].is_input
    /\ Len(sockets'[s].connections) = Len(sockets[s].connections) + 1
    /\ Len(sockets'[t].connections) = Len(sockets[t].connections) + 1

\* C11: connecting output socket A to input socket B and disconnecting them
\* again gives back the connections A and B had before the connection, in
\* contents and in order, whatever other edges A already had; no other socket
\* is touched by the round trip.
C11_ConnectDisconnectRoundTrip ==
    [][\A s, t \in DOMAIN sockets :
          Connected(s, t) =>
              /\ t \in Range(sockets'[s].connections)
              /\ DropEdge(GAfter, s, t).sockets = sockets]_vars

C11_Witness ==
    /\ last_error = "none"
    /\ \E s \in Attached :
          /\ ~sockets[s].is_input
          /\ Len(sockets[s].connections) = 2
          /\ \A t \in Range(sockets[s].connections) : sockets[t].connections = <<s>>

\* required inputs of n that have neither a connection nor a default value
FailingRequired(n) ==
    {s \in Range(required_inputs[n]) :
        sockets[s].connections = << >> /\ sockets[s].value = None}

\* C12: verify() returns false exactly when some required input has neither
\* a connection nor a default value, and the 'Invalid input' lines it leaves
\* in the tooltip list the failing required sockets, each once and nothing
\* else.
C12_VerifyDiagnostic ==
    returned.call = "verify" =>
        /\ returned.value = (FailingRequired(returned.node) = {})
        /\ Len(tooltip[returned.node]) = Cardinality(FailingRequired(returned.node))
        /\ Range(tooltip[returned.node]) =
               {sockets[s].label : s \in FailingRequired(returned.node)}

\* sockets in the input and output lists of n after the step
SocketsAfter(n) == Range(inputs'[n]) \cup Range(outputs'[n])

\* C13: when Node.remove() takes a node out of the scene, the node's sockets
\* hold no edge any more (exec sockets included) and no other socket lists
\* one of them; when the edge removal raises, the node is not taken out: it
\* stays registered in the scene and keeps its graphics node.
C13_RemoveFailsClosed ==
    [][/\ \A n \in scene_nodes \ scene_nodes' :
             /\ \A s \in SocketsAfter(n) : sockets'[s].connections = << >>
             /\ \A t \in DOMAIN sockets' :
                   Range(sockets'[t].connections) \cap SocketsAfter(n) = {}
       /\ last_error' = "Failed to delete node" =>
             scene_nodes' = scene_nodes /\ graphics_node' = graphics_node]_vars

C13_Witness ==
    /\ last_error = "Failed to delete node"
    /\ scene_nodes = Nodes
    /\ \E s, t \in Range(outputs["Add"]) :
          sockets[s].connections = << >> /\ sockets[t].connections # << >>

\* C14: no socket of a node in the scene lists a connection to a socket that
\* has been removed from its node or whose node has been removed from the
\* scene.
C14_NoDanglingEdges ==
    \A s \in Attached : Range(sockets[s].connections) \subseteq Attached

\* positions of signals' that hold the notification sig of node n
EmittedAfter(sig, n) ==
    {k \in DOMAIN signals' : signals'[k].signal = sig /\ signals'[k].node = n}

C16_SetInvalidIdempotent ==
    [][\A n \in Nodes :
          EmittedAfter("invalidChanged", n) # {} => is_invalid'[n] # is_invalid[n]]_vars

\* C17: marking a node invalid never cascades: a step changes the invalid
\* flag of no node but the one set_invalid was called on, by the host or by
\* the node's failed (or successful) execution.
C17_InvalidNeverCascades ==
    [][/\ \A n \in Nodes :
             is_invalid'[n] # is_invalid[n] => EmittedAfter("invalidChanged", n) # {}
       /\ Cardinality({n \in Nodes : EmittedAfter("invalidChanged", n) # {}}) <= 1]_vars

C17_Witness ==
    \E n \in Nodes :
        /\ signals = <<InvalidChanged(n, TRUE)>>
        /\ is_invalid[n]
        /\ \E m \in Downstream(n) : m # n /\ ~is_invalid[m]
        /\ \E m \in Nodes : n \in Downstream(m) /\ m # n /\ ~is_invalid[m]

\* the node is in the Compiled state of the status machine after the step
CompiledAfter(n) == is_compiled'[n] /\ ~is_invalid'[n]

\* C18: when a node that is Compiled (compiled and not invalid) leaves that
\* state in a step, to Unbuilt or to Invalid, no other node reachable from it
\* through output connections is compiled after the step.
C18_LeavingCompiledCascades ==
    [][\A n \in Nodes :
          (is_compiled[n] /\ ~is_invalid[n] /\ ~CompiledAfter(n))
              => \A m \in Reachable(n) \ {n} : ~is_compiled'[m]]_vars

\* C19: a structural edit returns the node to Unbuilt: after a step that
\* changes the input or the output list of a node (add_input, add_output,
\* remove_socket) the node is not compiled.
C19_StructuralEditUnbuilds ==
    [][\A n \in Nodes :
          (inputs'[n] # inputs[n] \/ outputs'[n] # outputs[n]) => ~is_compiled'[n]]_vars

\* C20: create_node with a registered type returns the node it has created,
\* whose id is the id of no node registered before the call, and registers
\* it, so that node_by_id of the returned node's id is that node.
C20_CreateNodeRegisters ==
    [][returned'.call = "create_node" =>
          /\ returned'.value # None
          /\ returned'.value \notin model_nodes
          /\ returned'.value \in model_nodes'
          /\ node_by_id(model_nodes', returned'.value) = returned'.value]_vars

\* C21: the required-inputs queue of every node is duplicate-free: whatever
\* the marking calls, by socket or by label, each socket occurs at most once
\* in required_inputs.
C21_RequiredDuplicateFree ==
    \A n \in Nodes :
        \A i, j \in DOMAIN required_inputs[n] :
            required_inputs[n][i] = required_inputs[n][j] => i = j

\* C22: every socket of the Exec data type has max_connections = 1, whatever
\* max_connections the caller of add_output passed, and holds at most one
\* connection: an exec output leads to at most one downstream node.
C22_ExecSingleConnection ==
    \A s \in DOMAIN sockets :
        sockets[s].data_type = Exec =>
            sockets[s].max_connections = 1 /\ Len(sockets[s].connections) <= 1

\* an Exec output added by the host (with max_connections 0 or 2) is
\* connected, and a further connection has been refused
C22_Witness ==
    /\ last_error = "ConnectionLimitError"
    /\ \E s \in NewSocketIds :
          /\ ~sockets[s].is_input
          /\ sockets[s].data_type = Exec
          /\ Len(sockets[s].connections) = 1

\* the sockets the node was constructed with under the attribute name
SocketsNamed(n, name) ==
    {s \in DOMAIN sockets :
        /\ s <= Len(ConstructedEdited.sockets)
        /\ sockets[s].node = n
        /\ \/ name = "exec_in_socket" /\ sockets[s].data_type = Exec /\ sockets[s].is_input
           \/ name = "exec_out_socket" /\ sockets[s].data_type = Exec /\ ~sockets[s].is_input
           \/ name \in {"a", "b", "result"} /\ sockets[s].label = name}

\* value() of socket s: the value of the connected output for a connected
\* input, the socket's own value otherwise
ValueOf(s) ==
    IF sockets[s].is_input /\ sockets[s].connections # << >>
    THEN sockets[sockets[s].connections[1]].value
    ELSE sockets[s].value

\* C23: Node.value(socket_name) raises when socket_name is no attribute of
\* the node or an attribute that is no socket, and returns nothing then;
\* when the name resolves to a socket it returns value() of that socket.
C23_ValueStrict ==
    returned.call = "value" =>
        IF SocketsNamed(returned.node, returned.name) = {}
        THEN returned.raised /\ last_error = "AttributeError"
        ELSE /\ ~returned.raised
             /\ \A s \in SocketsNamed(returned.node, returned.name) :
                    returned.value = ValueOf(s)

C23_Witness ==
    /\ returned.call = "value"
    /\ returned.name = "title"
    /\ returned.raised
    /\ last_error = "AttributeError"

\* C24: no host event is processed while a node is executing: a step taken
\* while the node at the head of the build has is_executing set and that
\* is not the node's own execution changes neither the graph nor the
\* scene, and at most one node is executing at any time.
C24_NoHostEventMidNode ==
    [][/\ (pc = "events" /\ is_executing[queue[pos]] /\ pc' = "events")
             => UNCHANGED <<graph_vars, scene_nodes, graphics_node>>
       /\ Cardinality({n \in Nodes : is_executing'[n]}) <= 1]_vars

\* C25: the node states are mutually exclusive: whatever builds the engine
\* has run, succeeding or failing, no node is compiled and invalid at the
\* same time.
C25_StatesExclusive ==
    \A n \in Nodes : ~(is_compiled[n] /\ is_invalid[n])

\* C26: the compiled = false cascade terminates on every graph, cycles of
\* output connections included: no set_compiled call ends in unbounded
\* recursion.
C26_CascadeTerminates ==
    last_error # "RecursionError"

\* C27: every socket in the required_inputs of a node is one of the node's
\* input sockets: an input taken off the node by remove_socket is in the
\* queue no more.
C27_RequiredAreInputs ==
    \A n \in Nodes : Range(required_inputs[n]) \subseteq Range(inputs[n])

ResponsesTo(function_name) ==
    {k \in 1..Len(responses) : responses[k].function_name = function_name}

\* C29: a request whose function name is Server.Commands.SHUTDOWN is handled
\* by the server itself: it is answered with the successful 'Server offline'
\* result, keep_running is False from then on and the server accepts no
\* request after it.
C29_ShutdownStopsServer ==
    \A k \in ResponsesTo(Commands_SHUTDOWN) :
        /\ responses[k].result.success
        /\ responses[k].result.return_value = "Server offline"
        /\ ~keep_running
        /\ served = responses[k].id

\* function names that name no server command, by attribute or by value
ModuleCommands == FunctionNames \ (DirCommands \cup {Commands_SHUTDOWN, Commands_LS})

\* C30: with the main-thread executor enabled, the result returned for a
\* module command is the reply the executor made for that command or a
\* TIMEOUT error, never the reply made for an earlier command.
C30_ReplyOfSameCommand ==
    use_main_thread_executor =>
        \A k \in 1..Len(responses) :
            responses[k].function_name \in ModuleCommands =>
                \/ responses[k].result.return_value = Errors_TIMEOUT
                \/ responses[k].result.origin = responses[k].id

====
